---- MODULE Spec2Model ----
(***************************************************************************)
(* A model of mcp_server.py, the "Surelook Holmes" MCP server: five tools  *)
(* backed by a Supabase store (identities, events, sessions) and one tool  *)
(* that asks a third-party HTTP API about a LinkedIn profile.              *)
(*                                                                         *)
(* Python values are written as follows.                                   *)
(*   - a dict is a function from its keys (strings) to its values; {} is   *)
(*     the function with the empty domain;                                 *)
(*   - an Optional[X] argument is a sequence: <<>> for None, <<x>> for x;  *)
(*     a nullable column of a row is written the same way (<<>> is NULL);  *)
(*   - what a tool hands back is tagged with its shape: "dict", "list",    *)
(*     or "raise" when an exception leaves the tool;                       *)
(*   - a message is the sequence of the fragments it is formatted from;    *)
(*   - a string whose characters matter (a name, a title) is the sequence  *)
(*     of its characters, and a JSON value is tagged with its type.        *)
(***************************************************************************)
EXTENDS Integers, Sequences, FiniteSets, TLC

VARIABLES
    supabase,       \* TRUE iff the module-level store client was created
    RAPIDAPI_KEY,   \* TRUE iff the API credential is set in the environment
    identities,     \* the store's identities table: id -> row
    sessions,       \* the store's sessions table: a set of rows
    events,         \* the store's events table, in insertion order
    call,           \* the last tool call: its name and arguments
    result,         \* what the last tool call handed back
    requests,       \* the store requests the last tool call issued
    http            \* the HTTP requests the last tool call issued

vars == <<supabase, RAPIDAPI_KEY, identities, sessions, events,
          call, result, requests, http>>

store == <<identities, sessions, events>>

-----------------------------------------------------------------------------
(* Bounds and input sets *)

\* The events table holds at most this many rows.
MaxEvents == 2

\* The profile's experience list holds at most this many entries.
MaxExp == 2

\* limit: int = 50, the default of get_events and get_notes.
DefaultLimit == 50

Opt(S) == {<<>>} \cup {<<v>> : v \in S}

\* `o is None`, and `not o` for an optional string
IsNone(o) == o = <<>>
Truthy(o) == o # <<>> /\ o # <<"">>

EmptyDict == [k \in {} |-> ""]

\* The rows of identities the store holds, and the ids a caller may pass.
IdentityIds == {"i1", "i2"}
IdentityArgs == {"i1", "i9"}
SessionArgs == {"s1", "s9"}
Limits == {1, DefaultLimit}

NameArgs == Opt({"Ann"})
StatusArgs == Opt({"friend"})
UrlArgs == Opt({""})
MetadataArgs == Opt({[k1 |-> "v1"]})

EventTypes == {"CONVERSATION_NOTE", "VISUAL_OBSERVATION"}
ContentArgs == {"c"}
EventSessionArgs == Opt({"", "s1"})
EventIdentityArgs == Opt({"", "i1"})

-----------------------------------------------------------------------------
(* Shapes of what a tool hands back *)

Dict(d) == [kind |-> "dict", v |-> d]
List(l) == [kind |-> "list", v |-> l]
Raise(e) == [kind |-> "raise", v |-> [exception |-> e]]

ErrNotInitialized == [error |-> <<"Supabase client not initialized">>]
ErrNoUpdates == [error |-> <<"No updates provided">>]
ErrNoKey == [error |-> <<"RAPIDAPI_KEY not set in environment">>]

\* `if not supabase`
\* (faulty variant: the test is left out)
ClientMissing_m == FALSE
ClientMissing == ~supabase

-----------------------------------------------------------------------------
(* The store, as the client's query builders use it *)

Reverse(s) == [i \in 1..Len(s) |-> s[Len(s) + 1 - i]]

\* .limit(n)
Take(s, n) == IF Len(s) <= n THEN s ELSE SubSeq(s, 1, n)

\* table("identities") ... .eq("id", identity_id): the matching rows
IdentitiesEq(identity_id) ==
    IF identity_id \in DOMAIN identities THEN <<identities[identity_id]>> ELSE <<>>

\* table("events").select("*").eq("session_id", s).order("created_at").limit(n)
EventsOfSession(session_id, limit) ==
    Take(SelectSeq(events, LAMBDA e : e.session_id = <<session_id>>), limit)

\* table("events").select("*").eq("related_identity_id", i).eq("type", t)
\*     .order("created_at", desc=True).limit(n)
EventsOfIdentity(identity_id, type, limit) ==
    Take(Reverse(SelectSeq(events,
             LAMBDA e : e.related_identity_id = <<identity_id>> /\ e.type = type)),
         limit)

\* A row with the columns of `updates` replaced.
Patch(row, updates) ==
    [k \in DOMAIN row |-> IF k \in DOMAIN updates THEN updates[k] ELSE row[k]]

\* table("identities").update(updates).eq("id", identity_id): the table afterwards
IdentitiesUpdated(updates, identity_id) ==
    [i \in DOMAIN identities |->
        IF i = identity_id THEN Patch(identities[i], updates) ELSE identities[i]]

\* The row the store makes of an insert payload: absent columns are NULL, the
\* id and created_at are the store's.
EventRow(data) ==
    [id |-> Len(events) + 1,
     type |-> data.type,
     content |-> data.content,
     session_id |->
        IF "session_id" \in DOMAIN data THEN <<data.session_id>> ELSE <<>>,
     related_identity_id |->
        IF "related_identity_id" \in DOMAIN data
        THEN <<data.related_identity_id>> ELSE <<>>,
     created_at |-> Len(events) + 1]

\* table("events").insert(data): the table afterwards
\* (faulty variant: the insert replaces the table)
EventsInserted_m(data) == <<EventRow(data)>>
EventsInserted(data) == Append(events, EventRow(data))

\* response.data[0] if response.data else {}
\* (faulty variant: no rows is reported as an error)
FirstOrEmpty_m(data) == IF Len(data) > 0 THEN data[1] ELSE ErrNoUpdates
FirstOrEmpty(data) == IF Len(data) > 0 THEN data[1] ELSE EmptyDict

-----------------------------------------------------------------------------
(* Initial state *)

Identity0(i) ==
    [id |-> i, name |-> "Bob", relationship_status |-> "stranger",
     linkedin_url |-> "u0", metadata |-> [k0 |-> "v0"]]

\* A row another client of the store wrote before this server started.
LegacyEvent ==
    [id |-> 1, type |-> "VISUAL_OBSERVATION", content |-> "old",
     session_id |-> <<"s1">>, related_identity_id |-> <<>>, created_at |-> 1]

InitStore ==
    /\ identities = [i \in IdentityIds |-> Identity0(i)]
    /\ sessions = {[id |-> "s1", created_at |-> 0]}
    /\ events = <<LegacyEvent>>

InitCall ==
    /\ call = [tool |-> "none"]
    /\ result = Dict(EmptyDict)
    /\ requests = <<>>
    /\ http = <<>>

-----------------------------------------------------------------------------
(* The store-backed tools *)

get_identity(identity_id) ==
    /\ call' = [tool |-> "get_identity", identity_id |-> identity_id]
    /\ IF ClientMissing
       THEN /\ result' = Dict(ErrNotInitialized)
            /\ requests' = <<>>
       ELSE LET rows == IdentitiesEq(identity_id) IN
            /\ requests' = <<[table |-> "identities", op |-> "select",
                              eq |-> [id |-> identity_id], data |-> rows]>>
            \* .single() raises unless exactly one row matches
            /\ result' = IF Len(rows) = 1 THEN Dict(rows[1]) ELSE Raise("APIError")
    /\ http' = <<>>
    /\ UNCHANGED <<supabase, RAPIDAPI_KEY, store>>

\* updates = {}; if <field> is not None: updates[<field>] = <field>
\* (faulty variant: `if <field>:` in place of `is not None`)
Updates_m(name, relationship_status, linkedin_url, metadata) ==
    LET keys == (IF Truthy(name) THEN {"name"} ELSE {})
                \cup (IF Truthy(relationship_status) THEN {"relationship_status"} ELSE {})
                \cup (IF Truthy(linkedin_url) THEN {"linkedin_url"} ELSE {})
                \cup (IF ~IsNone(metadata) THEN {"metadata"} ELSE {})
    IN [k \in keys |->
           CASE k = "name" -> name[1]
             [] k = "relationship_status" -> relationship_status[1]
             [] k = "linkedin_url" -> linkedin_url[1]
             [] k = "metadata" -> metadata[1]]
Updates(name, relationship_status, linkedin_url, metadata) ==
    LET keys == (IF ~IsNone(name) THEN {"name"} ELSE {})
                \cup (IF ~IsNone(relationship_status) THEN {"relationship_status"} ELSE {})
                \cup (IF ~IsNone(linkedin_url) THEN {"linkedin_url"} ELSE {})
                \cup (IF ~IsNone(metadata) THEN {"metadata"} ELSE {})
    IN [k \in keys |->
           CASE k = "name" -> name[1]
             [] k = "relationship_status" -> relationship_status[1]
             [] k = "linkedin_url" -> linkedin_url[1]
             [] k = "metadata" -> metadata[1]]

\* `if not updates`
\* (faulty variant: the test is left out)
NoUpdates_m(updates) == FALSE
NoUpdates(updates) == DOMAIN updates = {}

update_identity(identity_id, name, relationship_status, linkedin_url, metadata) ==
    /\ call' = [tool |-> "update_identity", identity_id |-> identity_id,
                name |-> name, relationship_status |-> relationship_status,
                linkedin_url |-> linkedin_url, metadata |-> metadata]
    /\ IF ClientMissing
       THEN /\ result' = Dict(ErrNotInitialized)
            /\ requests' = <<>>
            /\ UNCHANGED identities
       ELSE LET updates == Updates(name, relationship_status, linkedin_url, metadata) IN
            IF NoUpdates(updates)
            THEN /\ result' = Dict(ErrNoUpdates)
                 /\ requests' = <<>>
                 /\ UNCHANGED identities
            ELSE LET after == IdentitiesUpdated(updates, identity_id)
                     data == IF identity_id \in DOMAIN after
                             THEN <<after[identity_id]>> ELSE <<>>
                 IN /\ identities' = after
                    /\ requests' = <<[table |-> "identities", op |-> "update",
                                      payload |-> updates,
                                      eq |-> [id |-> identity_id], data |-> data]>>
                    /\ result' = Dict(FirstOrEmpty(data))
    /\ http' = <<>>
    /\ UNCHANGED <<supabase, RAPIDAPI_KEY, sessions, events>>

get_events(session_id, limit) ==
    /\ call' = [tool |-> "get_events", session_id |-> session_id, limit |-> limit]
    /\ IF ClientMissing
       THEN /\ result' = List(<<ErrNotInitialized>>)
            /\ requests' = <<>>
       ELSE LET rows == EventsOfSession(session_id, limit) IN
            /\ requests' = <<[table |-> "events", op |-> "select",
                              eq |-> [session_id |-> session_id], data |-> rows]>>
            /\ result' = List(rows)
    /\ http' = <<>>
    /\ UNCHANGED <<supabase, RAPIDAPI_KEY, store>>

\* data = {"type": type, "content": content}; if <field>: data[<field>] = <field>
\* (faulty variant: `is not None` in place of `if <field>:`)
EventData_m(type, content, session_id, related_identity_id) ==
    LET keys == {"type", "content"}
                \cup (IF ~IsNone(session_id) THEN {"session_id"} ELSE {})
                \cup (IF ~IsNone(related_identity_id) THEN {"related_identity_id"} ELSE {})
    IN [k \in keys |->
           CASE k = "type" -> type
             [] k = "content" -> content
             [] k = "session_id" -> session_id[1]
             [] k = "related_identity_id" -> related_identity_id[1]]
EventData(type, content, session_id, related_identity_id) ==
    LET keys == {"type", "content"}
                \cup (IF Truthy(session_id) THEN {"session_id"} ELSE {})
                \cup (IF Truthy(related_identity_id) THEN {"related_identity_id"} ELSE {})
    IN [k \in keys |->
           CASE k = "type" -> type
             [] k = "content" -> content
             [] k = "session_id" -> session_id[1]
             [] k = "related_identity_id" -> related_identity_id[1]]

create_event(type, content, session_id, related_identity_id) ==
    /\ Len(events) < MaxEvents
    /\ call' = [tool |-> "create_event", type |-> type, content |-> content,
                session_id |-> session_id,
                related_identity_id |-> related_identity_id]
    /\ IF ClientMissing
       THEN /\ result' = Dict(ErrNotInitialized)
            /\ requests' = <<>>
            /\ UNCHANGED events
       ELSE LET data == EventData(type, content, session_id, related_identity_id)
                rows == <<EventRow(data)>>
            IN /\ events' = EventsInserted(data)
               /\ requests' = <<[table |-> "events", op |-> "insert",
                                 payload |-> data, data |-> rows]>>
               /\ result' = Dict(FirstOrEmpty(rows))
    /\ http' = <<>>
    /\ UNCHANGED <<supabase, RAPIDAPI_KEY, identities, sessions>>

\* .eq("type", "NOTES")
NotesType == "NOTES"

get_notes(identity_id, limit) ==
    /\ call' = [tool |-> "get_notes", identity_id |-> identity_id, limit |-> limit]
    /\ IF ClientMissing
       THEN /\ result' = List(<<ErrNotInitialized>>)
            /\ requests' = <<>>
       ELSE LET rows == EventsOfIdentity(identity_id, NotesType, limit) IN
            /\ requests' = <<[table |-> "events", op |-> "select",
                              eq |-> [related_identity_id |-> identity_id,
                                      type |-> NotesType],
                              data |-> rows]>>
            /\ result' = List(rows)
    /\ http' = <<>>
    /\ UNCHANGED <<supabase, RAPIDAPI_KEY, store>>

-----------------------------------------------------------------------------
(* JSON values, as response.json() hands them to who_is_this *)

JNull == [t |-> "null"]
JStr(s) == [t |-> "str", s |-> s]
JBool(b) == [t |-> "bool", b |-> b]
JList(items) == [t |-> "list", items |-> items]
JObj(fields) == [t |-> "obj", fields |-> fields]

\* Only a dict has a .get: on any other value `.get` raises AttributeError.
HasGet(v) == v.t = "obj"

\* d.get(key, default)
Get(d, key, default) ==
    IF key \in DOMAIN d.fields THEN d.fields[key] ELSE default

\* bool(v)
PyTruthy(v) ==
    CASE v.t = "null" -> FALSE
      [] v.t = "str" -> v.s # <<>>
      [] v.t = "bool" -> v.b
      [] v.t = "list" -> v.items # <<>>
      [] v.t = "obj" -> DOMAIN v.fields # {}

\* str(v), as an f-string formats v
PyStr(v) ==
    CASE v.t = "null" -> <<"N", "o", "n", "e">>
      [] v.t = "str" -> v.s
      [] v.t = "bool" -> IF v.b THEN <<"T", "r", "u", "e">>
                         ELSE <<"F", "a", "l", "s", "e">>

\* a or b
PyOr(a, b) == IF PyTruthy(a) THEN a ELSE b

RECURSIVE LStrip(_)
LStrip(s) == IF s # <<>> /\ Head(s) = " " THEN LStrip(Tail(s)) ELSE s

RECURSIVE RStrip(_)
RStrip(s) ==
    IF s # <<>> /\ s[Len(s)] = " " THEN RStrip(SubSeq(s, 1, Len(s) - 1)) ELSE s

\* str.strip()
\* (faulty variant: no strip)
Strip_m(s) == s
Strip(s) == RStrip(LStrip(s))

\* profile.get("full_name")
\*   or f"{profile.get('first_name', '')} {profile.get('last_name', '')}".strip()
ResolveName(profile) ==
    LET full == Get(profile, "full_name", JNull)
        first == Get(profile, "first_name", JStr(<<>>))
        last == Get(profile, "last_name", JStr(<<>>))
    IN IF PyTruthy(full) THEN full
       ELSE JStr(Strip(PyStr(first) \o <<" ">> \o PyStr(last)))

\* next((exp for exp in experiences if exp.get("is_current")), None): the index
\* of the entry found (0 for None), or that an entry without .get was reached.
RECURSIVE ScanCurrent(_, _)
ScanCurrent(items, i) ==
    IF i > Len(items) THEN [raised |-> FALSE, found |-> 0]
    ELSE IF ~HasGet(items[i]) THEN [raised |-> TRUE, found |-> 0]
    ELSE IF PyTruthy(Get(items[i], "is_current", JNull))
         THEN [raised |-> FALSE, found |-> i]
    ELSE ScanCurrent(items, i + 1)

\* current_role = next(...); if not current_role and experiences:
\*     current_role = experiences[0]
\* (called once the scan has found every entry it read to be a dict)
\* (faulty variant: the flags are ignored)
CurrentRole_m(items) == items[1]
CurrentRole(items) ==
    LET found == ScanCurrent(items, 1).found
        current_role == IF found > 0 THEN items[found] ELSE JNull
    IN IF ~PyTruthy(current_role) /\ items # <<>> THEN items[1] ELSE current_role

At == <<" ", "a", "t", " ">>
Unknown == JStr(<<"U", "n", "k", "n", "o", "w", "n">>)

\* f"{title} at {comp}" if title and comp else comp or title
RoleSummary(current_role) ==
    LET comp == Get(current_role, "company", JStr(<<>>))
        title == Get(current_role, "title", JStr(<<>>))
    IN IF PyTruthy(title) /\ PyTruthy(comp)
       THEN JStr(PyStr(title) \o At \o PyStr(comp))
       ELSE PyOr(comp, title)

\* current_company = "Unknown"; if experiences and isinstance(experiences, list):
\*     ...; if current_role: current_company = <summary>
ResolveCompany(profile) ==
    LET experiences == Get(profile, "experiences", JList(<<>>)) IN
    IF PyTruthy(experiences) /\ experiences.t = "list"
    THEN LET current_role == CurrentRole(experiences.items) IN
         IF PyTruthy(current_role) THEN RoleSummary(current_role) ELSE Unknown
    ELSE Unknown

\* An exception: its class and its text, str(e).
Exc(type, text) == [type |-> type, text |-> text]

Returned(v) == [raised |-> FALSE, v |-> v]
Raised(e) == [raised |-> TRUE, e |-> e]

\* The body of the try block, given what the API answered.
TryBody(answer) ==
    IF answer.outcome = "transport_error"
    THEN Raised(Exc("ConnectionError", "connection refused"))
    ELSE IF answer.outcome = "http_error"
    THEN Raised(Exc("HTTPError", "500 Server Error"))
    ELSE IF answer.outcome = "not_json"
    THEN Raised(Exc("JSONDecodeError", "Expecting value"))
    ELSE LET data == answer.body IN
    IF ~HasGet(data)
    THEN Raised(Exc("AttributeError", "object has no attribute 'get'"))
    ELSE LET profile == Get(data, "data", data) IN
    IF ~HasGet(profile)
    THEN Raised(Exc("AttributeError", "object has no attribute 'get'"))
    ELSE LET experiences == Get(profile, "experiences", JList(<<>>)) IN
    IF /\ PyTruthy(experiences) /\ experiences.t = "list"
       /\ ScanCurrent(experiences.items, 1).raised
    THEN Raised(Exc("AttributeError", "object has no attribute 'get'"))
    ELSE Returned([name |-> ResolveName(profile),
                   company |-> ResolveCompany(profile),
                   about |-> Get(profile, "about", JNull)])

\* except Exception as e
\* (faulty variant: `except requests.RequestException`)
Catches_m(e) == e.type \in {"ConnectionError", "HTTPError"}
Catches(e) == TRUE

\* {"error": f"Failed to fetch LinkedIn data: {str(e)}"}
ErrFetch(e) == [error |-> <<"Failed to fetch LinkedIn data: ", e.text>>]

\* `if not RAPIDAPI_KEY`
KeyMissing == ~RAPIDAPI_KEY

ApiUrl == "https://fresh-linkedin-profile-data.p.rapidapi.com/enrich-lead"

who_is_this(linkedin_url, answer) ==
    /\ call' = [tool |-> "who_is_this", linkedin_url |-> linkedin_url]
    /\ IF KeyMissing
       THEN /\ result' = Dict(ErrNoKey)
            /\ http' = <<>>
       ELSE LET out == TryBody(answer) IN
            /\ http' = <<[method |-> "GET", url |-> ApiUrl,
                          linkedin_url |-> linkedin_url, answer |-> answer]>>
            /\ result' = IF ~out.raised THEN Dict(out.v)
                         ELSE IF Catches(out.e) THEN Dict(ErrFetch(out.e))
                         ELSE Raise(out.e.type)
    /\ requests' = <<>>
    /\ UNCHANGED <<supabase, RAPIDAPI_KEY, store>>

-----------------------------------------------------------------------------
(* What the profile API may answer *)

\* The dict of the fields of f that are there: Absent marks a missing key.
Absent == [t |-> "absent"]
Present(f) == JObj([k \in {x \in DOMAIN f : f[x] # Absent} |-> f[k]])

SeqsUpTo(S, n) == UNION {[1..k -> S] : k \in 0..n}

ExperienceEntries ==
    {Present([is_current |-> c, title |-> t, company |-> o]) :
        c \in {Absent, JBool(FALSE), JBool(TRUE)},
        t \in {Absent, JStr(<<>>), JStr(<<"C", "T", "O">>)},
        o \in {Absent, JNull, JStr(<<"A", "c", "m", "e">>)}}
    \cup {JNull, JStr(<<"x">>)}

ExperienceLists == {JList(l) : l \in SeqsUpTo(ExperienceEntries, MaxExp)}

SomeExperiences ==
    {Absent, JNull, JObj([a |-> JNull]),
     JList(<<JObj([title |-> JStr(<<"C", "T", "O">>)])>>)}

NameProfiles ==
    {Present([full_name |-> n, first_name |-> f, last_name |-> l, about |-> a,
              experiences |-> e]) :
        n \in {Absent, JNull, JStr(<<>>), JStr(<<"A", "l", " ", "B">>)},
        f \in {Absent, JNull, JStr(<<" ", "A", "l">>)},
        l \in {Absent, JStr(<<>>), JStr(<<"B", " ">>)},
        a \in {Absent, JStr(<<"h", "i">>)},
        e \in SomeExperiences}

ExperienceProfiles ==
    {JObj([full_name |-> JStr(<<"A", "l", " ", "B">>), experiences |-> e]) :
        e \in ExperienceLists}

Profiles == NameProfiles \cup ExperienceProfiles

\* A body is a profile, a profile wrapped in a "data" field, or something else.
Bodies ==
    Profiles \cup {JObj([data |-> p]) : p \in Profiles}
    \cup {JNull, JList(<<>>), JStr(<<"o", "k">>), JObj([data |-> JNull])}

Failures ==
    {[outcome |-> "transport_error"], [outcome |-> "http_error"],
     [outcome |-> "not_json"]}

Answers == Failures \cup {[outcome |-> "json", body |-> b] : b \in Bodies}

\* The answers tried while the store tools run beside the lookup.
SomeAnswers ==
    {[outcome |-> "transport_error"],
     [outcome |-> "json", body |-> JList(<<>>)],
     [outcome |-> "json",
      body |-> JObj([data |-> JObj([full_name |-> JStr(<<"A", "l", " ", "B">>)])])]}

UrlInputs == {"https://www.linkedin.com/in/al-b"}

-----------------------------------------------------------------------------
Init ==
    /\ supabase \in BOOLEAN
    /\ RAPIDAPI_KEY \in BOOLEAN
    /\ InitStore
    /\ InitCall

Next ==
    \/ \E i \in IdentityArgs : get_identity(i)
    \/ \E i \in IdentityArgs, n \in NameArgs, r \in StatusArgs, u \in UrlArgs,
          m \in MetadataArgs :
          update_identity(i, n, r, u, m)
    \/ \E s \in SessionArgs, l \in Limits : get_events(s, l)
    \/ \E t \in EventTypes, c \in ContentArgs, s \in EventSessionArgs,
          i \in EventIdentityArgs :
          create_event(t, c, s, i)
    \/ \E i \in IdentityArgs, l \in Limits : get_notes(i, l)
    \/ \E u \in UrlInputs, a \in SomeAnswers : who_is_this(u, a)

Spec == Init /\ [][Next]_vars

\* One profile lookup from the initial state, over every answer.
NextProfile ==
    /\ call.tool = "none"
    /\ \E u \in UrlInputs, a \in Answers : who_is_this(u, a)

SpecProfile == Init /\ [][NextProfile]_vars

-----------------------------------------------------------------------------
(* Properties *)

StoreTools ==
    {"get_identity", "update_identity", "get_events", "create_event", "get_notes"}
ReadTools == {"get_identity", "get_events", "get_notes", "who_is_this"}
UpdateFields == {"name", "relationship_status", "linkedin_url", "metadata"}

\* The optional fields an update_identity call supplied.
Supplied(c) == {k \in UpdateFields : c[k] # <<>>}

\* C1: an update_identity call that supplies none of name, relationship_status,
\* linkedin_url and metadata, with the store client initialized, returns
\* {"error": "No updates provided"}, issues no request to the store and leaves
\* the store as it was.
C1_NoUpdatesRejected ==
    [][(/\ supabase'
        /\ call'.tool = "update_identity"
        /\ Supplied(call') = {})
       => (/\ result'.kind = "dict"
           /\ result'.v = [error |-> <<"No updates provided">>]
           /\ requests' = <<>>
           /\ http' = <<>>
           /\ store' = store)]_vars

C1_Witness ==
    /\ supabase
    /\ call.tool = "update_identity"
    /\ call.identity_id = "i1"
    /\ Supplied(call) = {}
    /\ result.v = [error |-> <<"No updates provided">>]

\* C2: with the store client never initialized, every store-backed tool returns
\* the 'Supabase client not initialized' error in its own shape, whatever its
\* arguments: get_events and get_notes a one-element list holding the error
\* object, get_identity, update_identity and create_event the error object
\* itself; and none of them issues a request.
C2_UninitializedErrors ==
    (~supabase /\ call.tool \in StoreTools) =>
        /\ requests = <<>>
        /\ http = <<>>
        /\ call.tool \in {"get_events", "get_notes"} =>
              /\ result.kind = "list"
              /\ result.v = <<[error |-> <<"Supabase client not initialized">>]>>
        /\ call.tool \in {"get_identity", "update_identity", "create_event"} =>
              /\ result.kind = "dict"
              /\ result.v = [error |-> <<"Supabase client not initialized">>]

C2_Witness ==
    /\ ~supabase
    /\ call.tool = "get_events"
    /\ result.kind = "list"
    /\ result.v = <<[error |-> <<"Supabase client not initialized">>]>>

\* C10: when update_identity or create_event has issued its store request and
\* the request completed, the result is the first of the rows the store
\* reported, or {} when it reported none: the row as updated, {} for an
\* identity_id that matches no identity, the row as inserted.
C10_FirstRowOrEmpty ==
    (call.tool \in {"update_identity", "create_event"} /\ requests # <<>>) =>
        /\ result.kind = "dict"
        /\ Len(requests[1].data) > 0 => result.v = requests[1].data[1]
        /\ Len(requests[1].data) = 0 => result.v = EmptyDict
        /\ call.tool = "update_identity" =>
              IF call.identity_id \in DOMAIN identities
              THEN result.v = identities[call.identity_id]
              ELSE result.v = EmptyDict /\ requests[1].data = <<>>
        /\ call.tool = "create_event" => result.v = events[Len(events)]

C10_Witness ==
    /\ call.tool = "update_identity"
    /\ call.identity_id = "i9"
    /\ Supplied(call) # {}
    /\ requests # <<>>
    /\ result.v = EmptyDict

\* C6: an update_identity call that supplies at least one optional field sends
\* one update whose payload holds exactly the supplied fields with the values
\* given, filtered on id = identity_id; in the store only that identity changes,
\* only in the supplied columns, and a supplied metadata replaces the stored one
\* whole.
C6_PartialUpdate ==
    [][(/\ supabase'
        /\ call'.tool = "update_identity"
        /\ Supplied(call') # {})
       => (/\ Len(requests') = 1
           /\ requests'[1].table = "identities"
           /\ requests'[1].op = "update"
           /\ requests'[1].eq = [id |-> call'.identity_id]
           /\ DOMAIN requests'[1].payload = Supplied(call')
           /\ \A k \in Supplied(call') : requests'[1].payload[k] = call'[k][1]
           /\ DOMAIN identities' = DOMAIN identities
           /\ \A i \in DOMAIN identities :
                 IF i = call'.identity_id
                 THEN \A k \in DOMAIN identities[i] :
                         identities'[i][k] =
                            IF k \in Supplied(call') THEN call'[k][1]
                            ELSE identities[i][k]
                 ELSE identities'[i] = identities[i]
           /\ events' = events
           /\ sessions' = sessions)]_vars

C6_Witness ==
    /\ supabase
    /\ call.tool = "update_identity"
    /\ call.identity_id = "i1"
    /\ Supplied(call) = {"linkedin_url", "metadata"}
    /\ identities["i1"].linkedin_url = ""
    /\ identities["i1"].metadata = [k1 |-> "v1"]
    /\ identities["i1"].name = "Bob"
    /\ identities["i2"].metadata = [k0 |-> "v0"]

\* C7 as stated: a create_event call with the store initialized sends a payload
\* holding type and content as given, and session_id (related_identity_id) if
\* and only if that argument is not null, the empty string included.
C7_Original ==
    (supabase /\ call.tool = "create_event") =>
        /\ Len(requests) = 1
        /\ requests[1].payload.type = call.type
        /\ requests[1].payload.content = call.content
        /\ "session_id" \in DOMAIN requests[1].payload <=> call.session_id # <<>>
        /\ "related_identity_id" \in DOMAIN requests[1].payload
              <=> call.related_identity_id # <<>>

\* C7, amended: the payload holds type and content as given, and session_id
\* (related_identity_id), with the value given, if and only if that argument
\* is neither null nor the empty string; it holds no other key.
C7_TruthyFieldsOnly ==
    (supabase /\ call.tool = "create_event") =>
        /\ Len(requests) = 1
        /\ requests[1].table = "events"
        /\ requests[1].op = "insert"
        /\ requests[1].payload.type = call.type
        /\ requests[1].payload.content = call.content
        /\ DOMAIN requests[1].payload \subseteq
              {"type", "content", "session_id", "related_identity_id"}
        /\ \A k \in {"session_id", "related_identity_id"} :
              /\ k \in DOMAIN requests[1].payload
                    <=> (call[k] # <<>> /\ call[k] # <<"">>)
              /\ k \in DOMAIN requests[1].payload
                    => requests[1].payload[k] = call[k][1]

C7_Witness ==
    /\ supabase
    /\ call.tool = "create_event"
    /\ call.session_id = <<"">>
    /\ call.related_identity_id = <<"i1">>
    /\ DOMAIN requests[1].payload = {"type", "content", "related_identity_id"}

\* Whether row e is among the rows of list l.
Among(e, l) == \E k \in 1..Len(l) : l[k] = e

\* C8: get_notes(identity_id), with a limit no smaller than the table, returns
\* the events of type 'CONVERSATION_NOTE' whose related_identity_id is
\* identity_id: every such event that create_event stored, and no event of
\* another type or of another identity.
C8_NotesAreConversationNotes ==
    (supabase /\ call.tool = "get_notes" /\ call.limit >= Len(events)) =>
        /\ result.kind = "list"
        /\ \A k \in 1..Len(events) :
              (/\ events[k].type = "CONVERSATION_NOTE"
               /\ events[k].related_identity_id = <<call.identity_id>>)
              => Among(events[k], result.v)
        /\ \A k \in 1..Len(result.v) :
              /\ result.v[k].type = "CONVERSATION_NOTE"
              /\ result.v[k].related_identity_id = <<call.identity_id>>

\* C9: the server only ever inserts events and updates identities. In every
\* step the events already stored stay as they are and none is removed, the
\* sessions stay as they are, no identity is added or removed and none changes
\* its id; only create_event changes the events and only update_identity the
\* identities; get_identity, get_events, get_notes and who_is_this change
\* nothing in the store.
C9_WriteFootprint ==
    [][/\ Len(events') >= Len(events)
       /\ \A k \in 1..Len(events) : events'[k] = events[k]
       /\ sessions' = sessions
       /\ DOMAIN identities' = DOMAIN identities
       /\ \A i \in DOMAIN identities : identities'[i].id = identities[i].id
       /\ events' # events => call'.tool = "create_event"
       /\ identities' # identities => call'.tool = "update_identity"
       /\ call'.tool \in ReadTools => store' = store]_vars

C9_Witness ==
    /\ Len(events) = 2
    /\ events[1] = LegacyEvent
    /\ identities["i1"].name = "Ann"
    /\ call.tool \in ReadTools

-----------------------------------------------------------------------------
(* Properties of the profile lookup *)

\* The last call was a lookup that reached the API; what the API answered.
Looked == call.tool = "who_is_this" /\ Len(http) = 1
AnswerOf == http[1].answer

\* The last call was a lookup that returned a profile summary.
Summarised ==
    Looked /\ result.kind = "dict" /\ DOMAIN result.v = {"name", "company", "about"}

\* The profile of a body: its "data" field when it has one, else the body.
ProfileOf(body) ==
    IF "data" \in DOMAIN body.fields THEN body.fields.data ELSE body

\* The value of a field of a JSON object, Absent when the key is missing.
Val(obj, k) == IF k \in DOMAIN obj.fields THEN obj.fields[k] ELSE Absent

NonEmptyStr(v) == v.t = "str" /\ Len(v.s) > 0

Flagged(e) == e.t = "obj" /\ Val(e, "is_current") = [t |-> "bool", b |-> TRUE]

\* The entry the company comes from: the first flagged entry, else the first.
Chosen(items) ==
    IF \E i \in 1..Len(items) : Flagged(items[i])
    THEN items[CHOOSE i \in 1..Len(items) :
                  Flagged(items[i]) /\ \A j \in 1..(i - 1) : ~Flagged(items[j])]
    ELSE items[1]

\* A non-object entry that the search for a flagged entry reads.
ReadsNonObject(items) ==
    \E i \in 1..Len(items) :
        items[i].t # "obj" /\ \A j \in 1..(i - 1) : ~Flagged(items[j])

\* The answers on which the lookup fails, and the reason of each failure.
Fails(answer) ==
    \/ answer.outcome # "json"
    \/ answer.body.t # "obj"
    \/ ProfileOf(answer.body).t # "obj"
    \/ LET exps == Val(ProfileOf(answer.body), "experiences")
       IN exps.t = "list" /\ ReadsNonObject(exps.items)

ReasonOf(answer) ==
    CASE answer.outcome = "transport_error" -> "connection refused"
      [] answer.outcome = "http_error" -> "500 Server Error"
      [] answer.outcome = "not_json" -> "Expecting value"
      [] OTHER -> "object has no attribute 'get'"

IsTrimOf(t, s) ==
    \E i \in 1..(Len(s) + 1), j \in 0..Len(s) :
        /\ t = SubSeq(s, i, j)
        /\ \A k \in 1..(i - 1) : s[k] = " "
        /\ \A k \in (j + 1)..Len(s) : s[k] = " "
        /\ Len(t) > 0 => (t[1] # " " /\ t[Len(t)] # " ")

\* The text an absent, null or string field contributes to the joined name.
TextOf(v) ==
    CASE v.t = "absent" -> <<>>
      [] v.t = "null" -> <<"N", "o", "n", "e">>
      [] v.t = "str" -> v.s

\* C4 as stated: for a lookup that returns a summary, if the profile contains
\* full_name the name is that field verbatim; if it contains only first_name
\* and/or last_name the name is the two joined by one space and trimmed.
C4_Original ==
    Summarised =>
        LET p == ProfileOf(AnswerOf.body)
            first == Val(p, "first_name")
            last == Val(p, "last_name")
        IN /\ "full_name" \in DOMAIN p.fields => result.v.name = p.fields.full_name
           /\ (/\ "full_name" \notin DOMAIN p.fields
               /\ first.t \in {"absent", "str"}
               /\ last.t \in {"absent", "str"}
               /\ {first.t, last.t} # {"absent"})
              => /\ result.v.name.t = "str"
                 /\ IsTrimOf(result.v.name.s, TextOf(first) \o <<" ">> \o TextOf(last))

\* C4, amended: if the profile contains a non-empty full_name the name is that
\* field verbatim; otherwise (full_name absent, null or empty) the name is
\* first_name and last_name, a missing one taken as empty and a null one as
\* the text None, joined by one space and trimmed.
C4_NameResolution ==
    Summarised =>
        LET p == ProfileOf(AnswerOf.body)
            full == Val(p, "full_name")
            first == Val(p, "first_name")
            last == Val(p, "last_name")
        IN IF NonEmptyStr(full)
           THEN result.v.name = full
           ELSE /\ result.v.name.t = "str"
                /\ IsTrimOf(result.v.name.s, TextOf(first) \o <<" ">> \o TextOf(last))

C4_Witness ==
    /\ Summarised
    /\ Val(ProfileOf(AnswerOf.body), "full_name") = [t |-> "str", s |-> <<>>]
    /\ Val(ProfileOf(AnswerOf.body), "first_name") = [t |-> "str", s |-> <<" ", "A", "l">>]
    /\ Val(ProfileOf(AnswerOf.body), "last_name") = [t |-> "str", s |-> <<"B", " ">>]
    /\ result.v.name = [t |-> "str", s |-> <<"A", "l", " ", "B">>]

\* What the claim says of the string c made from entry e: "<title> at
\* <company>" when both are non-empty, otherwise the one that is non-empty;
\* from an entry with neither, nothing non-empty.
SummaryOf(c, e) ==
    LET title == Val(e, "title")
        comp == Val(e, "company")
    IN /\ (NonEmptyStr(title) /\ NonEmptyStr(comp)) =>
             c = [t |-> "str", s |-> title.s \o <<" ", "a", "t", " ">> \o comp.s]
       /\ (NonEmptyStr(title) /\ ~NonEmptyStr(comp)) => c = title
       /\ (~NonEmptyStr(title) /\ NonEmptyStr(comp)) => c = comp
       /\ (~NonEmptyStr(title) /\ ~NonEmptyStr(comp)) => ~NonEmptyStr(c)

UnknownCompany == [t |-> "str", s |-> <<"U", "n", "k", "n", "o", "w", "n">>]

\* C5 as stated: for a lookup that returns a summary, the company is made from
\* the first entry flagged is_current, or from the first entry of the list
\* when none is flagged, and is "Unknown" when the list is empty or absent.
C5_Original ==
    Summarised =>
        LET exps == Val(ProfileOf(AnswerOf.body), "experiences") IN
        /\ (exps.t = "list" /\ Len(exps.items) > 0) =>
              SummaryOf(result.v.company, Chosen(exps.items))
        /\ (exps.t = "absent" \/ (exps.t = "list" /\ Len(exps.items) = 0)) =>
              result.v.company = UnknownCompany

\* C5, amended: the company is made from the first entry flagged is_current,
\* or from the first entry of the list when none is flagged, unless that entry
\* is an empty object; it is "Unknown" when that entry is an empty object and
\* when the experience list is empty, absent or not a list.
C5_CompanyResolution ==
    Summarised =>
        LET exps == Val(ProfileOf(AnswerOf.body), "experiences") IN
        IF exps.t = "list" /\ Len(exps.items) > 0
        THEN IF DOMAIN Chosen(exps.items).fields = {}
             THEN result.v.company = UnknownCompany
             ELSE SummaryOf(result.v.company, Chosen(exps.items))
        ELSE result.v.company = UnknownCompany

C5_Witness ==
    /\ Summarised
    /\ LET exps == Val(ProfileOf(AnswerOf.body), "experiences") IN
       /\ exps.t = "list"
       /\ Len(exps.items) = 2
       /\ exps.items[1] = [t |-> "obj", fields |-> [company |-> [t |-> "null"]]]
       /\ Flagged(exps.items[2])
    /\ result.v.company =
          [t |-> "str",
           s |-> <<"C", "T", "O", " ", "a", "t", " ", "A", "c", "m", "e">>]

====
